---------------------------- MODULE Spec2Model ----------------------------
(***************************************************************************)
(* Model of the shader-graph data model of cycles-shader-editor-imgui:     *)
(*   csg::Node            (src/src/graph/node.cpp)                         *)
(*   csg::ColorRamp       (src/src/graph/ramp.h)                           *)
(*   cse::ShaderGraphEditorImpl (declaration at the end of node.cpp)       *)
(*                                                                         *)
(* A 32-bit generator output is written as <<high 16 bits, low 16 bits>>   *)
(* and a 64-bit NodeId as four 16-bit limbs, least significant first (the  *)
(* layout roll_id writes through its uint32_t pointer on a little-endian   *)
(* target), because the values do not fit the model checker's integers.    *)
(***************************************************************************)
EXTENDS Integers, Sequences, FiniteSets, TLC

VARIABLES
    nodes,          \* Node objects held by the caller: variable name -> <<>> or <<node>>
    node_id_rng,    \* static std::mt19937 node_id_rng: its seed and the outputs drawn so far
    last,           \* the last operation, its arguments and its return value
    built,          \* history: for a node made by Node(type, position, id) and not
                    \* touched since, the arguments of that constructor call
    points,         \* ColorRamp::points
    m_running,      \* ShaderGraphEditorImpl::_running
    window_thread,  \* ShaderGraphEditorImpl::window_thread
    threads_started,\* history: number of UI threads spawned so far
    stop_requested, \* SharedState: force_close has asked the UI thread to stop
    graph,          \* SharedState: the serialized graph of the session
    new_data,       \* SharedState: the UI thread has edits not yet fetched
    runs,           \* two runs of the program side by side: for each its generator,
                    \* its latest node, the calls made and the ids they produced
    node_id_rng_mutex, \* static std::mutex node_id_rng_mutex: 0 or the thread holding it
    threads,        \* threads calling roll_id: position in roll_id and its locals
    rolled,         \* history: the roll_id calls that have returned, in order
    roll_calls      \* history: roll_id executions so far, those made by constructors
                    \* included

nodeVars   == <<nodes, node_id_rng, built, roll_calls>>
rampVars   == <<points>>
editorVars == <<m_running, window_thread, threads_started, stop_requested, graph, new_data>>
runVars    == <<runs>>
concVars   == <<node_id_rng_mutex, threads, rolled>>
vars       == <<nodes, node_id_rng, last, built, points,
                m_running, window_thread, threads_started, stop_requested, graph, new_data,
                runs, node_id_rng_mutex, threads, rolled, roll_calls>>

----------------------------------------------------------------------------
(* Bounds of the model *)

MaxDraws     == 6   \* generator outputs a behaviour may consume
MaxCoord     == 1   \* node positions are <<x, 0>> with x in 0..MaxCoord
MaxTypes     == 2   \* implemented node types used where two nodes interact
MaxEditIndex == 2   \* slot indices the slot-value edit may touch

NodeVars == {"a", "b"}
Positions == {<<x, 0>> : x \in 0..MaxCoord}

----------------------------------------------------------------------------
(* The shared generator, node.cpp:12-13 *)

\* std::mt19937::default_seed
default_seed == 5489

\* The first outputs of std::mt19937 seeded with `seed`, each as
\* <<high half, low half>>; for the default seed they are 3499211612,
\* 581869302, 3890346734, ... and for seed 1 they are 1791095845, 4282876139, ...
mt19937_outputs(seed) ==
    IF seed = default_seed
    THEN << <<53393, 47964>>, <<8878, 40694>>, <<59361, 64238>>, <<54723, 8057>>,
           <<8322, 13612>>, <<63495, 47071>>, <<59859, 5>>, <<14485, 45025>>,
           <<41442, 19386>>, <<20196, 2347>>, <<6392, 26723>>, <<35862, 42533>> >>
    ELSE << <<27329, 62501>>, <<65351, 33003>>, <<47207, 12172>>, <<61116, 5192>>,
           <<7, 32511>>, <<8396, 50057>>, <<19813, 43723>>, <<65473, 7813>>,
           <<9617, 52047>>, <<15472, 21440>>, <<6051, 32912>>, <<25990, 20609>> >>

\* The generator is its seed and the number of outputs drawn from it so far
mt19937(seed) == [seed |-> seed, drawn |-> 0]

\* node_id_rng(): the output the generator g returns next
node_id_rng_draw(g) == mt19937_outputs(g.seed)[g.drawn + 1]

\* the generator after `k` more draws
Advance(g, k) == [g EXCEPT !.drawn = @ + k]

node_id_rng_init_mut == {mt19937(default_seed), mt19937(1)}

\* static std::mt19937 node_id_rng; -- default-constructed and never seeded:
\* the generator states a run of the program can start in
node_id_rng_init == {mt19937(default_seed)}

\* A NodeId from its two 32-bit halves id_ptr[0], id_ptr[1]
NodeIdOf(w0, w1) == <<w0[2], w0[1], w1[2], w1[1]>>

\* A small NodeId literal
NodeIdLit(k) == <<k, 0, 0, 0>>

\* ids a caller passes to Node(type, position, id)
SuppliedIds == {NodeIdLit(7)}

----------------------------------------------------------------------------
(* Slots.  slot.h is not part of the sources at hand: a slot is the record  *)
(* of what its constructor is given, a slot built from a value is an input *)
(* of the value's type, and two slots are equal when their records are.     *)

SlotValue(kind, args) == [kind |-> kind, args |-> args]
NoValue == SlotValue("none", <<>>)

\* SlotType of a slot built from a value
ValueSlotType(value) ==
    CASE value.kind = "FloatSlotValue"       -> "FLOAT"
      [] value.kind = "ColorSlotValue"       -> "COLOR"
      [] value.kind = "VectorSlotValue"      -> "VECTOR"
      [] value.kind = "EnumSlotValue"        -> "ENUM"
      [] value.kind = "BoolSlotValue"        -> "BOOL"
      [] value.kind = "RGBCurveSlotValue"    -> "CURVE_RGB"
      [] value.kind = "VectorCurveSlotValue" -> "CURVE_VECTOR"

\* Slot{ disp_name, name, dir, type }: a bare connection point
Slot4(disp_name, name, dir, type) ==
    [disp_name |-> disp_name, name |-> name, dir |-> dir, type |-> type, value |-> NoValue]

\* Slot{ disp_name, name, value }: an input with a literal default
Slot3(disp_name, name, value) ==
    [disp_name |-> disp_name, name |-> name, dir |-> "INPUT",
     type |-> ValueSlotType(value), value |-> value]

SlotDirections == {"INPUT", "OUTPUT"}

----------------------------------------------------------------------------
(* Node::Node(type, position): the switch over the node type *)

NodeTypeCases ==
    << "MATERIAL_OUTPUT",
       "RGB_CURVES",
       "ADD_SHADER",
       "ANISOTROPIC_BSDF",
       "DIFFUSE_BSDF",
       "EMISSION",
       "GLASS_BSDF",
       "GLOSSY_BSDF",
       "HAIR_BSDF",
       "HOLDOUT",
       "MIX_SHADER",
       "PRINCIPLED_BSDF",
       "PRINCIPLED_HAIR",
       "PRINCIPLED_VOLUME",
       "REFRACTION_BSDF",
       "SUBSURFACE_SCATTER",
       "TOON_BSDF",
       "TRANSLUCENT_BSDF",
       "TRANSPARENT_BSDF",
       "VELVET_BSDF",
       "VOL_ABSORPTION",
       "VOL_SCATTER",
       "BUMP",
       "DISPLACEMENT",
       "NORMAL_MAP",
       "VECTOR_CURVES",
       "VECTOR_DISPLACEMENT",
       "VECTOR_TRANSFORM" >>

NodeSlots(type) ==
    CASE type = "MATERIAL_OUTPUT" ->
         << Slot4("Surface", "surface", "INPUT", "CLOSURE"),
            Slot4("Volume", "volume", "INPUT", "CLOSURE"),
            Slot4("Displacement", "displacement", "INPUT", "VECTOR") >>
      [] type = "RGB_CURVES" ->
         << Slot4("Color", "color", "OUTPUT", "COLOR"),
            Slot3("Curves", "curves", SlotValue("RGBCurveSlotValue", <<>>)),
            Slot3("Fac", "fac", SlotValue("FloatSlotValue", <<"1.0f", "0.0f", "1.0f">>)),
            Slot3("Color", "color", SlotValue("ColorSlotValue", <<"csc::Float3{0.0f,0.0f,0.0f}">>)) >>
      [] type = "ADD_SHADER" ->
         << Slot4("Closure", "closure", "OUTPUT", "CLOSURE"),
            Slot4("Closure1", "closure1", "INPUT", "CLOSURE"),
            Slot4("Closure2", "closure2", "INPUT", "CLOSURE") >>
      [] type = "ANISOTROPIC_BSDF" ->
         << Slot4("BSDF", "BSDF", "OUTPUT", "CLOSURE"),
            Slot3("Distribution", "distribution", SlotValue("EnumSlotValue", <<"AnisotropicDistribution::GGX">>)),
            Slot3("Color", "color", SlotValue("ColorSlotValue", <<"csc::Float3{0.9f,0.9f,0.9f}">>)),
            Slot3("Roughness", "roughness", SlotValue("FloatSlotValue", <<"0.0f", "0.0f", "1.0f">>)),
            Slot3("Anisotropy", "anisotropy", SlotValue("FloatSlotValue", <<"0.5f", "-1.0f", "1.0f">>)),
            Slot3("Rotation", "rotation", SlotValue("FloatSlotValue", <<"0.0f", "0.0f", "1.0f">>)),
            Slot4("Normal", "normal", "INPUT", "VECTOR"),
            Slot4("Tangent", "tangent", "INPUT", "VECTOR") >>
      [] type = "DIFFUSE_BSDF" ->
         << Slot4("BSDF", "BSDF", "OUTPUT", "CLOSURE"),
            Slot3("Color", "color", SlotValue("ColorSlotValue", <<"csc::Float3{0.9f,0.9f,0.9f}">>)),
            Slot3("Roughness", "roughness", SlotValue("FloatSlotValue", <<"0.0f", "0.0f", "1.0f">>)),
            Slot4("Normal", "normal", "INPUT", "VECTOR") >>
      [] type = "EMISSION" ->
         << Slot4("Emission", "emission", "OUTPUT", "CLOSURE"),
            Slot3("Color", "color", SlotValue("ColorSlotValue", <<"csc::Float3{0.9f,0.9f,0.9f}">>)),
            Slot3("Strength", "strength", SlotValue("FloatSlotValue", <<"0.0f", "0.0f", "FLT_MAX">>)) >>
      [] type = "GLASS_BSDF" ->
         << Slot4("BSDF", "BSDF", "OUTPUT", "CLOSURE"),
            Slot3("Distribution", "distribution", SlotValue("EnumSlotValue", <<"GlassDistribution::GGX">>)),
            Slot3("Color", "color", SlotValue("ColorSlotValue", <<"csc::Float3{0.9f,0.9f,0.9f}">>)),
            Slot3("Roughness", "roughness", SlotValue("FloatSlotValue", <<"0.0f", "0.0f", "1.0f">>)),
            Slot3("IOR", "ior", SlotValue("FloatSlotValue", <<"1.45f", "0.0f", "100.0f">>)),
            Slot4("Normal", "normal", "INPUT", "VECTOR") >>
      [] type = "GLOSSY_BSDF" ->
         << Slot4("BSDF", "BSDF", "OUTPUT", "CLOSURE"),
            Slot3("Distribution", "distribution", SlotValue("EnumSlotValue", <<"GlossyDistribution::GGX">>)),
            Slot3("Color", "color", SlotValue("ColorSlotValue", <<"csc::Float3{0.9f,0.9f,0.9f}">>)),
            Slot3("Roughness", "roughness", SlotValue("FloatSlotValue", <<"0.0f", "0.0f", "1.0f">>)),
            Slot4("Normal", "normal", "INPUT", "VECTOR") >>
      [] type = "HAIR_BSDF" ->
         << Slot4("BSDF", "BSDF", "OUTPUT", "CLOSURE"),
            Slot3("Component", "component", SlotValue("EnumSlotValue", <<"HairComponent::REFLECTION">>)),
            Slot3("Color", "color", SlotValue("ColorSlotValue", <<"csc::Float3{0.9f,0.9f,0.9f}">>)),
            Slot3("Offset", "offset", SlotValue("FloatSlotValue", <<"0.0f", "-90.0f", "90.0f", "2">>)),
            Slot3("RoughnessU", "roughness_u", SlotValue("FloatSlotValue", <<"0.1f", "0.0f", "1.0f">>)),
            Slot3("RoughnessV", "roughness_v", SlotValue("FloatSlotValue", <<"1.0f", "0.0f", "1.0f">>)),
            Slot4("Tangent", "tangent", "INPUT", "VECTOR") >>
      [] type = "HOLDOUT" ->
         << Slot4("Holdout", "holdout", "OUTPUT", "CLOSURE") >>
      [] type = "MIX_SHADER" ->
         << Slot4("Closure", "closure", "OUTPUT", "CLOSURE"),
            Slot3("Fac", "fac", SlotValue("FloatSlotValue", <<"0.5f", "0.0f", "1.0f">>)),
            Slot4("Closure1", "closure1", "INPUT", "CLOSURE"),
            Slot4("Closure2", "closure2", "INPUT", "CLOSURE") >>
      [] type = "PRINCIPLED_BSDF" ->
         << Slot4("BSDF", "BSDF", "OUTPUT", "CLOSURE"),
            Slot3("Distribution", "distribution", SlotValue("EnumSlotValue", <<"PrincipledBSDFDistribution::GGX">>)),
            Slot3("Base Color", "base_color", SlotValue("ColorSlotValue", <<"csc::Float3{0.8f,0.8f,0.8f}">>)),
            Slot3("Subsurface Method", "subsurface_method", SlotValue("EnumSlotValue", <<"PrincipledBSDFSubsurfaceMethod::BURLEY">>)),
            Slot3("Subsurface", "subsurface", SlotValue("FloatSlotValue", <<"0.0f", "0.0f", "1.0f">>)),
            Slot3("Subsurface Radius", "subsurface_radius", SlotValue("VectorSlotValue", <<"csc::Float3{1.0f,0.2f,0.1f}", "csc::Float3{0.0f,0.0f,0.0f}", "csc::Float3{FLT_MAX,FLT_MAX,FLT_MAX}">>)),
            Slot3("Subsurface Color", "subsurface_color", SlotValue("ColorSlotValue", <<"csc::Float3{0.7f,1.0f,1.0f}">>)),
            Slot3("Metallic", "metallic", SlotValue("FloatSlotValue", <<"0.0f", "0.0f", "1.0f">>)),
            Slot3("Specular", "specular", SlotValue("FloatSlotValue", <<"0.5f", "0.0f", "1.0f">>)),
            Slot3("Specular Tint", "specular_tint", SlotValue("FloatSlotValue", <<"0.0f", "0.0f", "1.0f">>)),
            Slot3("Roughness", "roughness", SlotValue("FloatSlotValue", <<"0.5f", "0.0f", "1.0f">>)),
            Slot3("Anisotropic", "anisotropic", SlotValue("FloatSlotValue", <<"0.0f", "0.0f", "1.0f">>)),
            Slot3("Rotation", "anisotropic_rotation", SlotValue("FloatSlotValue", <<"0.0f", "0.0f", "1.0f">>)),
            Slot3("Sheen", "sheen", SlotValue("FloatSlotValue", <<"0.0f", "0.0f", "1.0f">>)),
            Slot3("Sheen Tint", "sheen_tint", SlotValue("FloatSlotValue", <<"0.5f", "0.0f", "1.0f">>)),
            Slot3("Clearcoat", "clearcoat", SlotValue("FloatSlotValue", <<"0.0f", "0.0f", "1.0f">>)),
            Slot3("Clearcoat Roughness", "clearcoat_roughness", SlotValue("FloatSlotValue", <<"0.0f", "0.0f", "1.0f">>)),
            Slot3("IOR", "ior", SlotValue("FloatSlotValue", <<"1.45f", "0.0f", "100.0f">>)),
            Slot3("Transmission", "transmission", SlotValue("FloatSlotValue", <<"0.0f", "0.0f", "1.0f">>)),
            Slot3("Emission", "emission", SlotValue("ColorSlotValue", <<"csc::Float3{0.0f,0.0f,0.0f}">>)),
            Slot3("Alpha", "alpha", SlotValue("FloatSlotValue", <<"1.0f", "0.0f", "1.0f">>)),
            Slot4("Normal", "normal", "INPUT", "VECTOR"),
            Slot4("Clearcoat Normal", "clearcoat_normal", "INPUT", "VECTOR"),
            Slot4("Tangent", "tangent", "INPUT", "VECTOR") >>
      [] type = "PRINCIPLED_HAIR" ->
         << Slot4("BSDF", "BSDF", "OUTPUT", "CLOSURE"),
            Slot3("Coloring", "coloring", SlotValue("EnumSlotValue", <<"PrincipledHairColoring::DIRECT_COLORING">>)),
            Slot3("Color", "color", SlotValue("ColorSlotValue", <<"csc::Float3{0.017513f,0.005763f,0.002059f}">>)),
            Slot3("Melanin", "melanin", SlotValue("FloatSlotValue", <<"0.8f", "0.0f", "1.0f">>)),
            Slot3("Melanin Redness", "melanin_redness", SlotValue("FloatSlotValue", <<"1.0f", "0.0f", "1.0f">>)),
            Slot3("Tint", "tint", SlotValue("ColorSlotValue", <<"csc::Float3{1.0f,1.0f,1.0f}">>)),
            Slot3("Absorption Coefficient", "absorption_coefficient", SlotValue("VectorSlotValue", <<"csc::Float3{0.245531f,0.52f,1.365f}", "csc::Float3{0.0f,0.0f,0.0f}", "csc::Float3{FLT_MAX,FLT_MAX,FLT_MAX}">>)),
            Slot3("Roughness", "roughness", SlotValue("FloatSlotValue", <<"0.3f", "0.0f", "1.0f">>)),
            Slot3("Radial Roughness", "radial_roughness", SlotValue("FloatSlotValue", <<"0.3f", "0.0f", "1.0f">>)),
            Slot3("Coat", "coat", SlotValue("FloatSlotValue", <<"0.0f", "0.0f", "1.0f">>)),
            Slot3("IOR", "ior", SlotValue("FloatSlotValue", <<"1.55f", "0.0f", "1000.0f">>)),
            Slot3("Offset (rad)", "offset", SlotValue("FloatSlotValue", <<"2*M_PI/180.0f", "M_PI/-2.0f", "M_PI/2.0f">>)),
            Slot3("Random Roughness", "random_roughness", SlotValue("FloatSlotValue", <<"0.0f", "0.0f", "1.0f">>)),
            Slot3("Random Color", "random_color", SlotValue("FloatSlotValue", <<"0.0f", "0.0f", "1.0f">>)),
            Slot3("Random", "random", SlotValue("FloatSlotValue", <<"0.0f", "0.0f", "FLT_MAX">>)) >>
      [] type = "PRINCIPLED_VOLUME" ->
         << Slot4("Volume", "volume", "OUTPUT", "CLOSURE"),
            Slot3("Color", "color", SlotValue("ColorSlotValue", <<"csc::Float3{0.5f,0.5f,0.5f}">>)),
            Slot3("Density", "density", SlotValue("FloatSlotValue", <<"1.0f", "0.0f", "FLT_MAX">>)),
            Slot3("Anisotropy", "anisotropy", SlotValue("FloatSlotValue", <<"0.0f", "-1.0f", "1.0f">>)),
            Slot3("Absorption Color", "absorption_color", SlotValue("ColorSlotValue", <<"csc::Float3{0.0f,0.0f,0.0f}">>)),
            Slot3("Emission Strength", "emission_strength", SlotValue("FloatSlotValue", <<"0.0f", "0.0f", "FLT_MAX">>)),
            Slot3("Emission Color", "emission_color", SlotValue("ColorSlotValue", <<"csc::Float3{1.0f,1.0f,1.0f}">>)),
            Slot3("Blackbody Intensity", "blackbody_intensity", SlotValue("FloatSlotValue", <<"0.0f", "0.0f", "1.0f">>)),
            Slot3("Blackbody Tint", "blackbody_tint", SlotValue("ColorSlotValue", <<"csc::Float3{1.0f,1.0f,1.0f}">>)),
            Slot3("Temperature", "temperature", SlotValue("FloatSlotValue", <<"1000.0f", "0.0f", "8000.0f">>)) >>
      [] type = "REFRACTION_BSDF" ->
         << Slot4("BSDF", "BSDF", "OUTPUT", "CLOSURE"),
            Slot3("Distribution", "distribution", SlotValue("EnumSlotValue", <<"RefractionDistribution::GGX">>)),
            Slot3("Color", "color", SlotValue("ColorSlotValue", <<"csc::Float3{0.9f,0.9f,0.9f}">>)),
            Slot3("Roughness", "roughness", SlotValue("FloatSlotValue", <<"0.0f", "0.0f", "1.0f">>)),
            Slot3("IOR", "ior", SlotValue("FloatSlotValue", <<"1.45f", "0.0f", "100.0f">>)),
            Slot4("Normal", "normal", "INPUT", "VECTOR") >>
      [] type = "SUBSURFACE_SCATTER" ->
         << Slot4("BSSRDF", "BSSRDF", "OUTPUT", "CLOSURE"),
            Slot3("Falloff", "falloff", SlotValue("EnumSlotValue", <<"SubsurfaceScatterFalloff::BURLEY">>)),
            Slot3("Color", "color", SlotValue("ColorSlotValue", <<"csc::Float3{0.9f,0.9f,0.9f}">>)),
            Slot3("Scale", "scale", SlotValue("FloatSlotValue", <<"1.0f", "0.0f", "FLT_MAX">>)),
            Slot3("Radius", "radius", SlotValue("VectorSlotValue", <<"csc::Float3{1.0f,1.0f,1.0f}", "csc::Float3{0.0f,0.0f,0.0f}", "csc::Float3{FLT_MAX,FLT_MAX,FLT_MAX}">>)),
            Slot3("Sharpness", "sharpness", SlotValue("FloatSlotValue", <<"0.0f", "0.0f", "1.0f">>)),
            Slot3("Texture Blur", "texture_blur", SlotValue("FloatSlotValue", <<"0.0f", "0.0f", "1.0f">>)),
            Slot4("Normal", "normal", "INPUT", "VECTOR") >>
      [] type = "TOON_BSDF" ->
         << Slot4("BSDF", "BSDF", "OUTPUT", "CLOSURE"),
            Slot3("Component", "component", SlotValue("EnumSlotValue", <<"ToonComponent::DIFFUSE">>)),
            Slot3("Color", "color", SlotValue("ColorSlotValue", <<"csc::Float3{0.9f,0.9f,0.9f}">>)),
            Slot3("Size", "size", SlotValue("FloatSlotValue", <<"0.5f", "0.0f", "1.0f">>)),
            Slot3("Smooth", "smooth", SlotValue("FloatSlotValue", <<"0.0f", "0.0f", "1.0f">>)),
            Slot4("Normal", "normal", "INPUT", "VECTOR") >>
      [] type = "TRANSLUCENT_BSDF" ->
         << Slot4("BSDF", "BSDF", "OUTPUT", "CLOSURE"),
            Slot3("Color", "color", SlotValue("ColorSlotValue", <<"csc::Float3{0.9f,0.9f,0.9f}">>)),
            Slot4("Normal", "normal", "INPUT", "VECTOR") >>
      [] type = "TRANSPARENT_BSDF" ->
         << Slot4("BSDF", "BSDF", "OUTPUT", "CLOSURE"),
            Slot3("Color", "color", SlotValue("ColorSlotValue", <<"csc::Float3{0.9f,0.9f,0.9f}">>)) >>
      [] type = "VELVET_BSDF" ->
         << Slot4("BSDF", "BSDF", "OUTPUT", "CLOSURE"),
            Slot3("Color", "color", SlotValue("ColorSlotValue", <<"csc::Float3{0.9f,0.9f,0.9f}">>)),
            Slot3("Sigma", "sigma", SlotValue("FloatSlotValue", <<"1.0f", "0.0f", "1.0f">>)),
            Slot4("Normal", "normal", "INPUT", "VECTOR") >>
      [] type = "VOL_ABSORPTION" ->
         << Slot4("Volume", "volume", "OUTPUT", "CLOSURE"),
            Slot3("Color", "color", SlotValue("ColorSlotValue", <<"csc::Float3{0.9f,0.9f,0.9f}">>)),
            Slot3("Density", "density", SlotValue("FloatSlotValue", <<"1.0f", "0.0f", "FLT_MAX">>)) >>
      [] type = "VOL_SCATTER" ->
         << Slot4("Volume", "volume", "OUTPUT", "CLOSURE"),
            Slot3("Color", "color", SlotValue("ColorSlotValue", <<"csc::Float3{0.9f,0.9f,0.9f}">>)),
            Slot3("Density", "density", SlotValue("FloatSlotValue", <<"1.0f", "0.0f", "FLT_MAX">>)),
            Slot3("Anisotropy", "anisotropy", SlotValue("FloatSlotValue", <<"0.0f", "-1.0f", "1.0f">>)) >>
      [] type = "BUMP" ->
         << Slot4("Normal", "normal", "OUTPUT", "VECTOR"),
            Slot3("Invert", "invert", SlotValue("BoolSlotValue", <<"false">>)),
            Slot3("Strength", "strength", SlotValue("FloatSlotValue", <<"1.0f", "0.0f", "1.0f">>)),
            Slot3("Distance", "distance", SlotValue("FloatSlotValue", <<"1.0f", "0.0f", "FLT_MAX">>)),
            Slot4("Height", "height", "INPUT", "FLOAT"),
            Slot4("Normal", "normal", "INPUT", "VECTOR") >>
      [] type = "DISPLACEMENT" ->
         << Slot4("Displacement", "displacement", "OUTPUT", "VECTOR"),
            Slot3("Space", "space", SlotValue("EnumSlotValue", <<"DisplacementSpace::OBJECT">>)),
            Slot3("Height", "height", SlotValue("FloatSlotValue", <<"0.0f", "0.0f", "FLT_MAX">>)),
            Slot3("Midlevel", "midlevel", SlotValue("FloatSlotValue", <<"0.5f", "0.0f", "FLT_MAX">>)),
            Slot3("Scale", "scale", SlotValue("FloatSlotValue", <<"1.0f", "0.0f", "FLT_MAX">>)),
            Slot4("Normal", "normal", "INPUT", "VECTOR") >>
      [] type = "NORMAL_MAP" ->
         << Slot4("Normal", "normal", "OUTPUT", "VECTOR"),
            Slot3("Space", "space", SlotValue("EnumSlotValue", <<"NormalMapSpace::TANGENT">>)),
            Slot3("Strength", "strength", SlotValue("FloatSlotValue", <<"1.0f", "0.0f", "10.0f">>)),
            Slot3("Color", "color", SlotValue("ColorSlotValue", <<"csc::Float3{0.5f,0.5f,1.0f}">>)) >>
      [] type = "VECTOR_CURVES" ->
         << Slot4("Vector", "vector", "OUTPUT", "VECTOR"),
            Slot3("Curves", "curves", SlotValue("VectorCurveSlotValue", <<"csc::Float2{-1.0f,-1.0f}", "csc::Float2{1.0f,1.0f}">>)),
            Slot3("Fac", "fac", SlotValue("FloatSlotValue", <<"1.0f", "0.0f", "1.0f">>)),
            Slot3("Vector", "vector", SlotValue("VectorSlotValue", <<"csc::Float3{0.0f,0.0f,0.0f}", "csc::Float3{-FLT_MAX,-FLT_MAX,-FLT_MAX}", "csc::Float3{FLT_MAX,FLT_MAX,FLT_MAX}">>)) >>
      [] type = "VECTOR_DISPLACEMENT" ->
         << Slot4("Displacement", "displacement", "OUTPUT", "VECTOR"),
            Slot3("Space", "space", SlotValue("EnumSlotValue", <<"VectorDisplacementSpace::TANGENT">>)),
            Slot4("Vector", "vector", "INPUT", "COLOR"),
            Slot3("Midlevel", "midlevel", SlotValue("FloatSlotValue", <<"0.0f", "0.0f", "FLT_MAX">>)),
            Slot3("Scale", "scale", SlotValue("FloatSlotValue", <<"1.0f", "0.0f", "FLT_MAX">>)) >>
      [] type = "VECTOR_TRANSFORM" ->
         << Slot4("Vector", "vector", "OUTPUT", "VECTOR"),
            Slot3("Type", "type", SlotValue("EnumSlotValue", <<"VectorTransformType::VECTOR">>)),
            Slot3("Convert From", "convert_from", SlotValue("EnumSlotValue", <<"VectorTransformSpace::WORLD">>)),
            Slot3("Convert To", "convert_to", SlotValue("EnumSlotValue", <<"VectorTransformSpace::OBJECT">>)),
            Slot3("Vector", "vector", SlotValue("VectorSlotValue", <<"csc::Float3{1.0f,1.0f,1.0f}", "csc::Float3{-FLT_MAX,-FLT_MAX,-FLT_MAX}", "csc::Float3{FLT_MAX,FLT_MAX,FLT_MAX}">>)) >>
      [] OTHER -> << >>

\* NodeType enumerators the switch has no case for
UnimplementedTypes == {"UNIMPLEMENTED_A", "UNIMPLEMENTED_B"}

ImplementedTypes == {NodeTypeCases[i] : i \in 1..Len(NodeTypeCases)}
NodeTypes == ImplementedTypes \cup UnimplementedTypes

\* The node types the two-node specification constructs
LifecycleTypes == {NodeTypeCases[i] : i \in 1..MaxTypes} \cup UnimplementedTypes

----------------------------------------------------------------------------
(* Node operations, as functions of the node and the generator *)

\* Node::roll_id, node.cpp:328-336
roll_id(n, rng) ==
    [node |-> [n EXCEPT !.id = NodeIdOf(node_id_rng_draw(rng), node_id_rng_draw(Advance(rng, 1)))],
     rng  |-> Advance(rng, 2)]

NodeCtorMut(type, position, rng) ==
    IF type \in ImplementedTypes
    THEN roll_id([id |-> NodeIdLit(0), type |-> type, position |-> position,
                  slots |-> NodeSlots(type)], rng)
    ELSE [node |-> [id |-> NodeIdLit(0), type |-> type, position |-> position,
                    slots |-> <<>>],
          rng  |-> rng]

\* Node::Node(type, position), node.cpp:17-267.  _id is written by roll_id
\* before anything reads it.
NodeCtor(type, position, rng) ==
    roll_id([id |-> NodeIdLit(0), type |-> type, position |-> position,
             slots |-> NodeSlots(type)], rng)

NodeCtorIdMut(type, position, id, rng) == NodeCtor(type, position, rng)

NodeCtorIdNoRollMut(type, position, id, rng) ==
    [node |-> [id |-> id, type |-> type, position |-> position, slots |-> NodeSlots(type)],
     rng  |-> rng]

\* Node::Node(type, position, id), node.cpp:269-273
NodeCtorId(type, position, id, rng) ==
    LET r == NodeCtor(type, position, rng)
    IN  [node |-> [r.node EXCEPT !.id = id], rng |-> r.rng]

RECURSIVE slot_index_from(_, _, _, _)
slot_index_from(slots, dir, slot_name, i) ==
    IF i >= Len(slots) THEN <<>>
    ELSE IF slots[i + 1].dir = dir /\ slots[i + 1].name = slot_name THEN <<i>>
    ELSE slot_index_from(slots, dir, slot_name, i + 1)

slot_index_mut(n, dir, slot_name) == slot_index_from(n.slots, "INPUT", slot_name, 0)

\* Node::slot_index, node.cpp:275-284
slot_index(n, dir, slot_name) == slot_index_from(n.slots, dir, slot_name, 0)

slot_mut(n, index) ==
    IF index + 1 >= Len(n.slots) THEN <<>> ELSE <<n.slots[index + 1]>>

\* Node::slot, node.cpp:286-292
slot(n, index) ==
    IF index >= Len(n.slots) THEN <<>> ELSE <<n.slots[index + 1]>>

copy_from_mut(n, other) == [n EXCEPT !.slots = other.slots]

\* Node::copy_from, node.cpp:294-299
copy_from(n, other) == [n EXCEPT !.type = other.type, !.slots = other.slots]

RECURSIVE slots_equal_from(_, _, _)
slots_equal_from(s, t, i) ==
    IF i >= Len(s) THEN TRUE
    ELSE IF s[i + 1] # t[i + 1] THEN FALSE
    ELSE slots_equal_from(s, t, i + 1)

NodeEqMut(n, other) ==
    IF n.id # other.id THEN FALSE
    ELSE IF n.type # other.type THEN FALSE
    ELSE IF Len(n.slots) # Len(other.slots) THEN FALSE
    ELSE slots_equal_from(n.slots, other.slots, 0)

\* Node::operator==, node.cpp:301-326
NodeEq(n, other) ==
    IF n.id # other.id THEN FALSE
    ELSE IF n.type # other.type THEN FALSE
    ELSE IF n.position # other.position THEN FALSE
    ELSE IF Len(n.slots) # Len(other.slots) THEN FALSE
    ELSE slots_equal_from(n.slots, other.slots, 0)

\* The literal a user edit writes into a float slot
EditedFloat == "0.25f"

\* A slot-value edit (node.h is not at hand): the value of a float slot
\* changes, its range and the rest of the slot stay
set_slot_value(n, index) ==
    [n EXCEPT !.slots[index + 1].value.args[1] = EditedFloat]

----------------------------------------------------------------------------
(* Steps on nodes *)

Has(v) == nodes[v] # <<>>
N(v)   == nodes[v][1]

Last(op, args, res) == [op |-> op, args |-> args, res |-> res]

Unbuilt(v) == [built EXCEPT ![v] = <<>>]

\* v = Node(type, position)
Construct(v, type, position) ==
    /\ node_id_rng.drawn + 2 <= MaxDraws
    /\ LET r == NodeCtor(type, position, node_id_rng)
       IN  /\ nodes' = [nodes EXCEPT ![v] = <<r.node>>]
           /\ node_id_rng' = r.rng
    /\ last' = Last("Node", <<v, type, position>>, <<>>)
    /\ roll_calls' = roll_calls + 1
    /\ built' = Unbuilt(v)
    /\ UNCHANGED <<rampVars, editorVars, runVars, concVars>>

\* v = Node(type, position, id)
ConstructWithId(v, type, position, id) ==
    /\ node_id_rng.drawn + 2 <= MaxDraws
    /\ LET r == NodeCtorId(type, position, id, node_id_rng)
       IN  /\ nodes' = [nodes EXCEPT ![v] = <<r.node>>]
           /\ node_id_rng' = r.rng
    /\ last' = Last("NodeId", <<v, type, position, id>>, <<>>)
    /\ roll_calls' = roll_calls + 1
    /\ built' = [built EXCEPT ![v] = <<type, position, id>>]
    /\ UNCHANGED <<rampVars, editorVars, runVars, concVars>>

\* v.roll_id()
RollId(v) ==
    /\ Has(v)
    /\ node_id_rng.drawn + 2 <= MaxDraws
    /\ LET r == roll_id(N(v), node_id_rng)
       IN  /\ nodes' = [nodes EXCEPT ![v] = <<r.node>>]
           /\ node_id_rng' = r.rng
           /\ last' = Last("roll_id", <<v>>, <<r.node.id>>)
    /\ roll_calls' = roll_calls + 1
    /\ built' = Unbuilt(v)
    /\ UNCHANGED <<rampVars, editorVars, runVars, concVars>>

\* v.copy_from(w)
CopyFrom(v, w) ==
    /\ Has(v) /\ Has(w)
    /\ nodes' = [nodes EXCEPT ![v] = <<copy_from(N(v), N(w))>>]
    /\ last' = Last("copy_from", <<v, w>>, <<>>)
    /\ built' = Unbuilt(v)
    /\ UNCHANGED <<node_id_rng, roll_calls, rampVars, editorVars, runVars, concVars>>

\* v.position = position  (position is a public field)
SetPosition(v, position) ==
    /\ Has(v)
    /\ nodes' = [nodes EXCEPT ![v] = <<[N(v) EXCEPT !.position = position]>>]
    /\ last' = Last("position", <<v, position>>, <<>>)
    /\ built' = Unbuilt(v)
    /\ UNCHANGED <<node_id_rng, roll_calls, rampVars, editorVars, runVars, concVars>>

\* the user edits the float slot at `index` of v
SetSlotValue(v, index) ==
    /\ Has(v)
    /\ index < Len(N(v).slots)
    /\ N(v).slots[index + 1].value.kind = "FloatSlotValue"
    /\ nodes' = [nodes EXCEPT ![v] = <<set_slot_value(N(v), index)>>]
    /\ last' = Last("set_slot_value", <<v, index>>, <<>>)
    /\ built' = Unbuilt(v)
    /\ UNCHANGED <<node_id_rng, roll_calls, rampVars, editorVars, runVars, concVars>>

\* v.slot_index(dir, slot_name)
SlotIndex(v, dir, slot_name) ==
    /\ Has(v)
    /\ last' = Last("slot_index", <<v, dir, slot_name>>, slot_index(N(v), dir, slot_name))
    /\ UNCHANGED <<nodeVars, rampVars, editorVars, runVars, concVars>>

\* v.slot(index)
SlotAt(v, index) ==
    /\ Has(v)
    /\ last' = Last("slot", <<v, index>>, slot(N(v), index))
    /\ UNCHANGED <<nodeVars, rampVars, editorVars, runVars, concVars>>

\* v == w
Equals(v, w) ==
    /\ Has(v) /\ Has(w)
    /\ last' = Last("operator==", <<v, w>>, <<NodeEq(N(v), N(w))>>)
    /\ UNCHANGED <<nodeVars, rampVars, editorVars, runVars, concVars>>

----------------------------------------------------------------------------
(* ColorRamp, ramp.h.  The header declares the constructor, set and        *)
(* sort_points without bodies; they follow the documented contract:        *)
(* the ramp is ordered by pos, set replaces a point and sorts again.       *)

MaxPoints == 3   \* longest ramp
MaxPos    == 2   \* point positions are 0..MaxPos

RampColors == {"black", "white"}

\* ColorRampPoint(pos, color, alpha), ramp.h:10-17
ColorRampPoint(pos, color, alpha) == [pos |-> pos, color |-> color, alpha |-> alpha]

RampPoints == {ColorRampPoint(p, c, 1) : p \in 0..MaxPos, c \in RampColors}

\* ColorRamp::size, ramp.h:23
size(pts) == Len(pts)

\* ColorRamp::get, ramp.h:25-28 (the caller keeps index < size)
get(pts, index) == pts[index + 1]

\* insert point p into the ascending sequence s, after the points of equal pos
RECURSIVE insert_sorted(_, _)
insert_sorted(s, p) ==
    IF s = <<>> THEN <<p>>
    ELSE IF p.pos < Head(s).pos THEN <<p>> \o s
    ELSE <<Head(s)>> \o insert_sorted(Tail(s), p)

\* ColorRamp::sort_points: ascending by pos
RECURSIVE sort_points(_)
sort_points(pts) ==
    IF pts = <<>> THEN <<>>
    ELSE insert_sorted(sort_points(SubSeq(pts, 1, Len(pts) - 1)), pts[Len(pts)])

ramp_set_mut(pts, index, new_point) == [pts EXCEPT ![index + 1] = new_point]

\* ColorRamp::set: replace the point, then sort again
ramp_set(pts, index, new_point) == sort_points([pts EXCEPT ![index + 1] = new_point])

RECURSIVE SortedSeqs(_)
SortedSeqs(n) ==
    IF n = 0 THEN {<<>>}
    ELSE {Append(s, p) : s \in SortedSeqs(n - 1), p \in RampPoints}

\* ColorRamp::ColorRamp leaves an ordered ramp
ColorRampCtor ==
    {sort_points(s) : s \in UNION {SortedSeqs(n) : n \in 0..MaxPoints}}

\* ramp.set(index, new_point)
RampSet(index, new_point) ==
    /\ index < size(points)
    /\ points' = ramp_set(points, index, new_point)
    /\ last' = Last("set", <<index, new_point>>, <<size(points)>>)
    /\ UNCHANGED <<nodeVars, editorVars, runVars, concVars>>

\* ramp.get(index)
RampGet(index) ==
    /\ index < size(points)
    /\ last' = Last("get", <<index>>, <<get(points, index)>>)
    /\ UNCHANGED <<nodeVars, rampVars, editorVars, runVars, concVars>>

----------------------------------------------------------------------------
(* ShaderGraphEditorImpl.  Only the class declaration is at hand (fields    *)
(* and their initialisers); the methods follow the documented state        *)
(* machine idle -> window-open -> closed.                                  *)

Graphs == {"", "g1", "g2"}

open_window_guard_mut == TRUE

\* open_window proceeds only when the editor is not running yet
open_window_guard == ~m_running

\* bool open_window()
OpenWindow ==
    /\ IF open_window_guard
       THEN /\ window_thread' = "running"
            /\ m_running' = TRUE
            /\ threads_started' = threads_started + 1
            /\ last' = Last("open_window", <<>>, <<TRUE>>)
       ELSE /\ last' = Last("open_window", <<>>, <<FALSE>>)
            /\ UNCHANGED <<window_thread, m_running, threads_started>>
    /\ threads_started' <= 2
    /\ UNCHANGED <<nodeVars, rampVars, runVars, concVars, stop_requested, graph, new_data>>

\* bool running() const
Running ==
    /\ last' = Last("running", <<>>, <<m_running>>)
    /\ UNCHANGED <<nodeVars, rampVars, editorVars, runVars, concVars>>

\* the UI thread: the user edits the graph
UIThreadEdit(g) ==
    /\ window_thread = "running"
    /\ graph' = g
    /\ new_data' = TRUE
    /\ last' = Last("ui_edit", <<g>>, <<>>)
    /\ UNCHANGED <<nodeVars, rampVars, runVars, concVars, m_running, window_thread, threads_started, stop_requested>>

\* the UI thread: the window is closed by the user or on request
UIThreadExit ==
    /\ window_thread = "running"
    /\ window_thread' = "exited"
    /\ last' = Last("ui_exit", <<>>, <<stop_requested>>)
    /\ UNCHANGED <<nodeVars, rampVars, runVars, concVars, m_running, threads_started, stop_requested, graph, new_data>>

\* void wait(): returns once the UI thread has exited
Wait ==
    /\ window_thread \in {"exited", "joined"}
    /\ window_thread' = "joined"
    /\ last' = Last("wait", <<>>, <<>>)
    /\ UNCHANGED <<nodeVars, rampVars, runVars, concVars, m_running, threads_started, stop_requested, graph, new_data>>

\* void force_close()
ForceClose ==
    /\ stop_requested' = TRUE
    /\ last' = Last("force_close", <<>>, <<>>)
    /\ UNCHANGED <<nodeVars, rampVars, runVars, concVars, m_running, window_thread, threads_started, graph, new_data>>

\* void load_graph(std::string graph)
LoadGraph(g) ==
    /\ graph' = g
    /\ last' = Last("load_graph", <<g>>, <<>>)
    /\ UNCHANGED <<nodeVars, rampVars, runVars, concVars, m_running, window_thread, threads_started, stop_requested, new_data>>

\* bool has_new_data()
HasNewData ==
    /\ last' = Last("has_new_data", <<>>, <<new_data>>)
    /\ UNCHANGED <<nodeVars, rampVars, editorVars, runVars, concVars>>

\* std::string get_serialized_graph()
GetSerializedGraph ==
    /\ new_data' = FALSE
    /\ last' = Last("get_serialized_graph", <<>>, <<graph>>)
    /\ UNCHANGED <<nodeVars, rampVars, runVars, concVars, m_running, window_thread, threads_started, stop_requested, graph>>

----------------------------------------------------------------------------
(* Two runs of the program, each with its own generator *)

Runs == {1, 2}

\* the constructor calls a run makes
RunTypes == {NodeTypeCases[1], "UNIMPLEMENTED_A"}

\* run r executes Node(type, <<0, 0>>)
RunConstruct(r, type) ==
    /\ runs[r].rng.drawn + 2 <= MaxDraws
    /\ LET res == NodeCtor(type, <<0, 0>>, runs[r].rng)
       IN  runs' = [runs EXCEPT ![r] =
                       [rng  |-> res.rng,
                        node |-> <<res.node>>,
                        ops  |-> Append(@.ops, <<"Node", type>>),
                        ids  |-> Append(@.ids, res.node.id)]]
    /\ UNCHANGED <<nodeVars, last, rampVars, editorVars, concVars>>

\* run r executes Node(type, <<0, 0>>, id)
RunConstructWithId(r, type, id) ==
    /\ runs[r].rng.drawn + 2 <= MaxDraws
    /\ LET res == NodeCtorId(type, <<0, 0>>, id, runs[r].rng)
       IN  runs' = [runs EXCEPT ![r] =
                       [rng  |-> res.rng,
                        node |-> <<res.node>>,
                        ops  |-> Append(@.ops, <<"NodeId", type, id>>),
                        ids  |-> Append(@.ids, res.node.id)]]
    /\ UNCHANGED <<nodeVars, last, rampVars, editorVars, concVars>>

\* run r executes roll_id() on the node it constructed last
RunRollId(r) ==
    /\ runs[r].node # <<>>
    /\ runs[r].rng.drawn + 2 <= MaxDraws
    /\ LET res == roll_id(runs[r].node[1], runs[r].rng)
       IN  runs' = [runs EXCEPT ![r] =
                       [rng  |-> res.rng,
                        node |-> <<res.node>>,
                        ops  |-> Append(@.ops, <<"roll_id">>),
                        ids  |-> Append(@.ids, res.node.id)]]
    /\ UNCHANGED <<nodeVars, last, rampVars, editorVars, concVars>>

----------------------------------------------------------------------------
(* Threads that roll ids concurrently, node.cpp:328-336.  Every thread     *)
(* rolls the id of a node of its own (in a constructor or by roll_id);     *)
(* the generator and the mutex are the only shared objects.                *)
(* std::mt19937::operator() is not atomic: it reads the position in the    *)
(* generator's state, then stores the position advanced by one.            *)

MaxThreads == 2   \* threads that call roll_id

Threads == 1..MaxThreads

ThreadIdle == [pc |-> "idle", idx |-> 0, i0 |-> 0, i1 |-> 0, w0 |-> <<>>, w1 |-> <<>>]

\* threads between entering roll_id and returning from it
InRollId == {t \in Threads : threads[t].pc # "idle"}

\* threads between the construction of the lock_guard and its destruction
InCritical == {t \in Threads : threads[t].pc \notin {"idle", "lock"}}

lock_guard_acquires_mut(mutex) == TRUE

\* std::lock_guard<std::mutex> lock{ node_id_rng_mutex }: proceeds when the
\* mutex is free, node.cpp:332
lock_guard_acquires(mutex) == mutex = 0

\* thread t enters roll_id: id_ptr = &_id, node.cpp:331
RollCall(t) ==
    /\ threads[t].pc = "idle"
    /\ 2 * (Len(rolled) + Cardinality(InRollId)) + 2 <= MaxDraws
    /\ threads' = [threads EXCEPT ![t] = [ThreadIdle EXCEPT !.pc = "lock"]]
    /\ last' = Last("roll_id call", <<t>>, <<>>)
    /\ UNCHANGED <<nodeVars, rampVars, editorVars, runVars, node_id_rng_mutex, rolled>>

\* thread t takes the mutex, node.cpp:332
RollLock(t) ==
    /\ threads[t].pc = "lock"
    /\ lock_guard_acquires(node_id_rng_mutex)
    /\ node_id_rng_mutex' = t
    /\ threads' = [threads EXCEPT ![t].pc = "read0"]
    /\ last' = Last("lock", <<t>>, <<>>)
    /\ UNCHANGED <<nodeVars, rampVars, editorVars, runVars, rolled>>

\* thread t, inside node_id_rng(): reads the generator's position
RollRead(t) ==
    /\ threads[t].pc \in {"read0", "read1"}
    /\ threads' = [threads EXCEPT ![t].idx = node_id_rng.drawn,
                                  ![t].pc = IF @ = "read0" THEN "write0" ELSE "write1"]
    /\ last' = Last("node_id_rng read", <<t>>, <<>>)
    /\ UNCHANGED <<nodeVars, rampVars, editorVars, runVars, node_id_rng_mutex, rolled>>

\* thread t, inside node_id_rng(): stores the advanced position; the output
\* goes to id_ptr[0], node.cpp:333, or id_ptr[1], node.cpp:334
RollWrite(t) ==
    /\ threads[t].pc \in {"write0", "write1"}
    /\ LET idx == threads[t].idx
           out == mt19937_outputs(node_id_rng.seed)[idx + 1]
       IN  /\ node_id_rng' = [node_id_rng EXCEPT !.drawn = idx + 1]
           /\ threads' = IF threads[t].pc = "write0"
                         THEN [threads EXCEPT ![t].i0 = idx, ![t].w0 = out, ![t].pc = "read1"]
                         ELSE [threads EXCEPT ![t].i1 = idx, ![t].w1 = out, ![t].pc = "unlock"]
    /\ last' = Last("node_id_rng write", <<t>>, <<>>)
    /\ UNCHANGED <<nodes, built, roll_calls, rampVars, editorVars, runVars, node_id_rng_mutex, rolled>>

\* thread t returns _id and the lock_guard releases the mutex, node.cpp:335-336
RollReturn(t) ==
    /\ threads[t].pc = "unlock"
    /\ node_id_rng_mutex' = 0
    /\ rolled' = Append(rolled, [thread |-> t, i0 |-> threads[t].i0, i1 |-> threads[t].i1,
                                 id |-> NodeIdOf(threads[t].w0, threads[t].w1)])
    /\ threads' = [threads EXCEPT ![t] = ThreadIdle]
    /\ last' = Last("roll_id", <<t>>, <<NodeIdOf(threads[t].w0, threads[t].w1)>>)
    /\ roll_calls' = roll_calls + 1
    /\ UNCHANGED <<nodes, node_id_rng, built, rampVars, editorVars, runVars>>

----------------------------------------------------------------------------
(* Specifications *)

Init ==
    /\ nodes = [v \in NodeVars |-> <<>>]
    /\ node_id_rng \in node_id_rng_init
    /\ last = Last("init", <<>>, <<>>)
    /\ built = [v \in NodeVars |-> <<>>]
    /\ points = <<>>
    /\ m_running = FALSE
    /\ window_thread = "none"
    /\ threads_started = 0
    /\ stop_requested = FALSE
    /\ graph = ""
    /\ new_data = FALSE
    /\ runs \in [Runs -> {[rng |-> g, node |-> <<>>, ops |-> <<>>, ids |-> <<>>] :
                              g \in node_id_rng_init}]
    /\ node_id_rng_mutex = 0
    /\ threads = [t \in Threads |-> ThreadIdle]
    /\ rolled = <<>>
    /\ roll_calls = 0

\* Two nodes and every operation that changes or compares them
Next ==
    \/ \E v \in NodeVars, t \in LifecycleTypes, p \in Positions : Construct(v, t, p)
    \/ \E v \in NodeVars, t \in LifecycleTypes, p \in Positions, id \in SuppliedIds :
           ConstructWithId(v, t, p, id)
    \/ \E v \in NodeVars : RollId(v)
    \/ \E v \in NodeVars, w \in NodeVars : CopyFrom(v, w)
    \/ \E v \in NodeVars, p \in Positions : SetPosition(v, p)
    \/ \E v \in NodeVars, i \in 0..MaxEditIndex : SetSlotValue(v, i)
    \/ \E v \in NodeVars, w \in NodeVars : Equals(v, w)

Spec == Init /\ [][Next]_vars

\* One freshly constructed node of any type and the lookups on it
MaxIndex == 24   \* largest index passed to slot()

AllSlotNames ==
    UNION {{NodeSlots(t)[i].name : i \in 1..Len(NodeSlots(t))} : t \in ImplementedTypes}
LookupNames == AllSlotNames \cup {"missing"}

NextLookup ==
    \/ \E t \in NodeTypes : ~Has("a") /\ Construct("a", t, <<0, 0>>)
    \/ \E dir \in SlotDirections, name \in LookupNames : SlotIndex("a", dir, name)
    \/ \E i \in 0..MaxIndex : SlotAt("a", i)

SpecLookup == Init /\ [][NextLookup]_vars

InitRamp ==
    /\ Init!1 /\ Init!2 /\ Init!3 /\ Init!4
    /\ points \in ColorRampCtor
    /\ Init!6 /\ Init!7 /\ Init!8 /\ Init!9 /\ Init!10 /\ Init!11 /\ Init!12
    /\ Init!13 /\ Init!14 /\ Init!15 /\ Init!16

NextRamp ==
    \/ \E i \in 0..(MaxPoints - 1), p \in RampPoints : RampSet(i, p)
    \/ \E i \in 0..(MaxPoints - 1) : RampGet(i)

SpecRamp == InitRamp /\ [][NextRamp]_vars

NextEditor ==
    \/ OpenWindow
    \/ Running
    \/ \E g \in Graphs : UIThreadEdit(g)
    \/ UIThreadExit
    \/ Wait
    \/ ForceClose
    \/ \E g \in Graphs : LoadGraph(g)
    \/ HasNewData
    \/ GetSerializedGraph

SpecEditor == Init /\ [][NextEditor]_vars

NextRuns ==
    \/ \E r \in Runs, t \in RunTypes : RunConstruct(r, t)
    \/ \E r \in Runs, t \in RunTypes : RunConstructWithId(r, t, NodeIdLit(7))
    \/ \E r \in Runs : RunRollId(r)

SpecRuns == Init /\ [][NextRuns]_vars

\* Two nodes, both constructors, roll_id and the operations that read nodes
DrawNames == {"surface", "missing"}

NextDraws ==
    \/ \E v \in NodeVars, t \in RunTypes : Construct(v, t, <<0, 0>>)
    \/ \E v \in NodeVars, t \in RunTypes, id \in SuppliedIds :
           ConstructWithId(v, t, <<0, 0>>, id)
    \/ \E v \in NodeVars : RollId(v)
    \/ \E v \in NodeVars, w \in NodeVars : CopyFrom(v, w)
    \/ \E v \in NodeVars, w \in NodeVars : Equals(v, w)
    \/ \E v \in NodeVars, dir \in SlotDirections, name \in DrawNames : SlotIndex(v, dir, name)
    \/ \E v \in NodeVars, i \in 0..MaxEditIndex : SlotAt(v, i)

SpecDraws == Init /\ [][NextDraws]_vars

\* Threads rolling ids concurrently
NextThreads ==
    \/ \E t \in Threads : RollCall(t)
    \/ \E t \in Threads : RollLock(t)
    \/ \E t \in Threads : RollRead(t)
    \/ \E t \in Threads : RollWrite(t)
    \/ \E t \in Threads : RollReturn(t)

SpecThreads == Init /\ [][NextThreads]_vars

----------------------------------------------------------------------------
(* Properties *)

SlotPairs(n) == {<<n.slots[i].dir, n.slots[i].name>> : i \in 1..Len(n.slots)}

\* C1: on a freshly constructed node of any type, slot_index(dir_i, name_i)
\* returns i for the slot at every index i (so no two slots share a
\* (direction, name) pair), and a lookup of a pair no slot has returns empty.
C1_SlotIndexFindsEverySlot ==
    \A v \in NodeVars : Has(v) =>
        /\ \A i \in 0..(Len(N(v).slots) - 1) :
               slot_index(N(v), N(v).slots[i + 1].dir, N(v).slots[i + 1].name) = <<i>>
        /\ (last.op = "slot_index" /\ last.args[1] = v) =>
               /\ <<last.args[2], last.args[3]>> \notin SlotPairs(N(v)) => last.res = <<>>
               /\ <<last.args[2], last.args[3]>> \in SlotPairs(N(v)) =>
                      /\ last.res # <<>>
                      /\ N(v).slots[last.res[1] + 1].dir = last.args[2]
                      /\ N(v).slots[last.res[1] + 1].name = last.args[3]

\* the INPUT "color" slot of RGB_CURVES is found at index 3 although the
\* OUTPUT slot at index 0 has the same name
C1_Witness ==
    /\ Has("a") /\ N("a").type = "RGB_CURVES"
    /\ last.op = "slot_index" /\ last.args = <<"a", "INPUT", "color">> /\ last.res = <<3>>

\* C2: operator== returns true exactly when id, type, position and the slot
\* lists of the two nodes are equal; so n == n, and a difference in any one
\* of them makes the nodes unequal.
C2_EqualityIsStructural ==
    last.op = "operator==" =>
        LET n == N(last.args[1])
            other == N(last.args[2])
        IN  last.res[1] = ( /\ n.id = other.id
                            /\ n.type = other.type
                            /\ n.position = other.position
                            /\ n.slots = other.slots )

\* two nodes that differ in the position only compare unequal
C2_Witness ==
    /\ last.op = "operator==" /\ last.args = <<"a", "b">> /\ last.res = <<FALSE>>
    /\ N("a").id = N("b").id
    /\ N("a").type = N("b").type
    /\ N("a").slots = N("b").slots
    /\ N("a").position # N("b").position

\* C3: Node(type, position, id) has exactly the id passed in, whatever the
\* generator has produced before, and two nodes built from the same
\* arguments compare equal.
C3_ExplicitIdIsKept ==
    \A v \in NodeVars : built[v] # <<>> =>
        /\ N(v).id = built[v][3]
        /\ \A w \in NodeVars : built[w] = built[v] => NodeEq(N(v), N(w))

C3_Witness ==
    /\ built["a"] # <<>>
    /\ built["a"] = built["b"]
    /\ node_id_rng.drawn >= 4
    /\ last.op = "operator==" /\ last.args = <<"a", "b">> /\ last.res = <<TRUE>>

\* C4: a.copy_from(b) leaves a with b's type, position and slots and with
\* the id a had before.
C4_CopyFromCopiesAllButId ==
    [][last'.op = "copy_from" =>
          LET a == last'.args[1]
              b == last'.args[2]
          IN  /\ nodes'[a][1].type = nodes[b][1].type
              /\ nodes'[a][1].position = nodes[b][1].position
              /\ nodes'[a][1].slots = nodes[b][1].slots
              /\ nodes'[a][1].id = nodes[a][1].id]_vars

Schema(slots) == [i \in 1..Len(slots) |-> <<slots[i].name, slots[i].dir, slots[i].type>>]

\* C5: in every reachable state the slot schema of a node (count, and name,
\* direction and type of every slot in order) is the template of the node's
\* current type.
C5_SchemaFollowsType ==
    \A v \in NodeVars : Has(v) => Schema(N(v).slots) = Schema(NodeSlots(N(v).type))

\* copy_from has just given node a another type and the slots of that type
C5_Witness ==
    /\ last.op = "copy_from" /\ last.args = <<"a", "b">> /\ last.res = <<>>
    /\ N("a").type = "RGB_CURVES"
    /\ N("a").id # N("b").id
    /\ N("a").slots[3].value.args[1] = EditedFloat

\* C6: constructing a node of a type the switch has no case for completes
\* with zero slots, the given type and position, and an id made of the two
\* generator outputs roll_id has just drawn.
C6_UnknownTypeHasNoSlots ==
    (last.op = "Node" /\ last.args[2] \notin ImplementedTypes) =>
        LET n == N(last.args[1])
        IN  /\ n.slots = <<>>
            /\ n.type = last.args[2]
            /\ n.position = last.args[3]
            /\ node_id_rng.drawn >= 2
            /\ n.id = NodeIdOf(node_id_rng_draw(Advance(node_id_rng, -2)),
                               node_id_rng_draw(Advance(node_id_rng, -1)))

C6_Witness ==
    /\ last.op = "Node" /\ last.args = <<"b", "UNIMPLEMENTED_B", <<1, 0>>>> /\ last.res = <<>>
    /\ node_id_rng.drawn = 4

\* C7: slot(index) returns the slot stored at index when index < slot count
\* and empty otherwise, and leaves the node and the generator unchanged.
C7_SlotIsBoundsChecked ==
    [][last'.op = "slot" =>
          LET n == nodes[last'.args[1]][1]
              index == last'.args[2]
          IN  /\ index < Len(n.slots) => last'.res = <<n.slots[index + 1]>>
              /\ index >= Len(n.slots) => last'.res = <<>>
              /\ nodes' = nodes
              /\ node_id_rng' = node_id_rng]_vars

\* slot(size) on a node that has slots
C7_Witness ==
    /\ last.op = "slot"
    /\ last.res = <<>>
    /\ Len(N("a").slots) > 0
    /\ last.args[2] = Len(N("a").slots)

\* C8: after construction and after every set(index, point) with
\* index < size(), the points are in ascending order of pos, and set leaves
\* size() as it was.
C8_RampStaysSorted ==
    /\ \A i \in 0..(size(points) - 2) : get(points, i).pos <= get(points, i + 1).pos
    /\ last.op = "set" => size(points) = last.res[1]

\* a point written at index 0 has moved to the end of the ramp
C8_Witness ==
    /\ last.op = "set"
    /\ last.args[1] = 0
    /\ size(points) = 3
    /\ get(points, 2) = last.args[2]
    /\ get(points, 1).pos < last.args[2].pos

HasRolledId(ops) == \E i \in 1..Len(ops) : ops[i][1] \in {"Node", "roll_id"}

\* C9 as stated: ids are not reproducible across runs, two runs that perform
\* the same sequence of node constructions obtain different id sequences.
C9_RunsObtainDifferentIds ==
    (runs[1].ops = runs[2].ops /\ HasRolledId(runs[1].ops)) => runs[1].ids # runs[2].ids

\* C9 as amended: two runs that perform the same sequence of node
\* constructions and roll_id calls on one thread obtain the same id sequence.
C9_SameConstructionsSameIds ==
    runs[1].ops = runs[2].ops => runs[1].ids = runs[2].ids

C9_Witness ==
    /\ runs[1].ops = runs[2].ops
    /\ Len(runs[1].ops) = 3
    /\ runs[1].ops[1][1] = "Node"
    /\ runs[1].ops[2][1] = "roll_id"
    /\ runs[1].ops[3][1] = "Node"

Phase ==
    CASE window_thread = "none"    -> "idle"
      [] window_thread = "running" -> "window-open"
      [] OTHER                     -> "closed"

\* C10: the editor starts idle with running() false; open_window on a
\* running editor starts no thread, so at most one UI thread ever exists and
\* the session only moves idle -> window-open -> closed.
C10_OpenWindowIsGuarded ==
    [][/\ threads_started' <= 1
       /\ (last'.op = "running" /\ threads_started' = 0) => last'.res = <<FALSE>>
       /\ (last'.op = "open_window" /\ m_running) =>
              /\ last'.res = <<FALSE>>
              /\ threads_started' = threads_started
              /\ window_thread' = window_thread
       /\ Phase' # Phase =>
              <<Phase, Phase'>> \in {<<"idle", "window-open">>, <<"window-open", "closed">>}]_vars

\* open_window was refused while the window was open
C10_Witness ==
    /\ last.op = "open_window" /\ last.args = <<>> /\ last.res = <<FALSE>>
    /\ window_thread = "running"
    /\ threads_started = 1

DrawsOf(call) == {call.i0, call.i1}

\* C11: with several threads rolling ids, the two draws of a roll_id call are
\* one critical section: at most one thread is inside it, the two halves of
\* every id are two consecutive outputs of the generator, and no output is
\* used by two calls.
C11_DrawsAreOneCriticalSection ==
    /\ Cardinality(InCritical) <= 1
    /\ \A k \in 1..Len(rolled) :
           /\ rolled[k].i1 = rolled[k].i0 + 1
           /\ rolled[k].id = NodeIdOf(mt19937_outputs(node_id_rng.seed)[rolled[k].i0 + 1],
                                      mt19937_outputs(node_id_rng.seed)[rolled[k].i0 + 2])
    /\ \A k, l \in 1..Len(rolled) : k # l => DrawsOf(rolled[k]) \cap DrawsOf(rolled[l]) = {}

\* thread 1 waits for the mutex while thread 2 is between its two draws,
\* after thread 1 has rolled an id before
C11_Witness ==
    /\ threads[1].pc = "lock"
    /\ threads[2].pc = "read1"
    /\ node_id_rng_mutex = 2
    /\ Len(rolled) = 1
    /\ rolled[1].thread = 1

\* C12: every construction, the one with an explicit id included, and every
\* roll_id call advances the generator by exactly two outputs, so a rolled id
\* is made of the outputs at twice the number of earlier constructions and
\* roll_id calls; copy_from, slot, slot_index and operator== leave the
\* generator as it is.
C12_EveryConstructionDrawsTwice ==
    [][/\ last'.op \in {"Node", "NodeId", "roll_id"} =>
              node_id_rng' = Advance(node_id_rng, 2)
       /\ last'.op \in {"copy_from", "slot", "slot_index", "operator=="} =>
              node_id_rng' = node_id_rng
       /\ node_id_rng'.drawn = 2 * roll_calls'
       /\ last'.op \in {"Node", "roll_id"} =>
              nodes'[last'.args[1]][1].id =
                  NodeIdOf(mt19937_outputs(node_id_rng.seed)[2 * roll_calls + 1],
                           mt19937_outputs(node_id_rng.seed)[2 * roll_calls + 2])]_vars

\* node b has just been rolled the third and fourth output, after node a was
\* constructed with an explicit id
C12_Witness ==
    /\ last.op = "Node"
    /\ last.args[1] = "b"
    /\ built["a"] # <<>>
    /\ roll_calls = 2
    /\ N("b").id = NodeIdOf(mt19937_outputs(default_seed)[3], mt19937_outputs(default_seed)[4])

=============================================================================
